---- MODULE Spec2Model ----
(***************************************************************************)
(* A model of quepy's application API (quepy/quepyapp.py): construction of *)
(* a QuepyApp from its modules (settings propagation, rule discovery and   *)
(* ranking), the two facade operations get_query and get_queries, the      *)
(* generator _iter_compiled_forms, and question_sanitize.                  *)
(*                                                                         *)
(* Texts are sequences of characters tagged with their Python 2 type       *)
(* (str or unicode).  The collaborators that live outside quepyapp.py (the *)
(* tagger, the rule variants, encoding_flexible_conversion, the printout   *)
(* functions) are modelled by their contracts.                             *)
(***************************************************************************)
EXTENDS Integers, Sequences, FiniteSets, TLC

VARIABLES
    settings,   \* the shared quepy.settings namespace: a set of <<name, value>>
    app,        \* the QuepyApp object, or NoApp
    gens,       \* the live get_queries generator objects, by handle
    last,       \* the record of the last completed get_query call, or NoCall
    raised,     \* the exception that escaped the last operation, or "none"
    loads,      \* history: the settings modules of the applications constructed
    failed      \* history: a call on this application found no printout
                \* function or could not be tagged

vars == <<settings, app, gens, last, raised, loads, failed>>

(***************************************************************************)
(* Bounds of the model.                                                    *)
(***************************************************************************)
MaxSymbols == 3       \* symbols in a regex module checked by the registry
MaxRules == 2         \* rule definitions of an application that is queried
MaxWeight == 2        \* rule weights range over 1..MaxWeight
MaxQuestionLen == 2   \* characters in a question
MaxTextLen == 3       \* characters in a text given to question_sanitize alone
MaxLoads == 3         \* applications constructed in one process

\* Python values are records that carry their type; None is the one of NoneType.
None == [type |-> "NoneType"]

\* bool(value), for the values of the model: only None is false.
Truthy(value) == value # None

(***************************************************************************)
(* Characters and texts.                                                   *)
(***************************************************************************)
SQ == "'"
DQ == "\""
BS == "\\"
HASH == "#"           \* stands for input the tagger's backend cannot parse

QuestionChars == {"w", DQ, HASH}

RECURSIVE SeqsUpTo(_, _)
SeqsUpTo(S, n) ==
    IF n = 0 THEN {<< >>}
    ELSE LET shorter == SeqsUpTo(S, n - 1)
         IN  shorter \cup {Append(s, c) : s \in {t \in shorter : Len(t) = n - 1}, c \in S}

\* A Python 2 value: a text of type str or unicode, or an int.
Value(type, s) == [type |-> type, s |-> s]

Questions ==
    {Value(t, s) : t \in {"str", "unicode"}, s \in SeqsUpTo(QuestionChars, MaxQuestionLen)}

\* s.replace(old, new) for a one-character old.
RECURSIVE Replace(_, _, _)
Replace(s, old, new) ==
    IF s = << >> THEN << >>
    ELSE (IF Head(s) = old THEN new ELSE <<Head(s)>>) \o Replace(Tail(s), old, new)

\* The literal "\'" of line 60 is the one-character string ' in Python.
EscapedSingleQuote == <<SQ>>

\* The literal "\\\"" of line 61 is the two characters \ and ".
EscapedDoubleQuote == <<BS, DQ>>

question_sanitize(question) ==
    LET q1 == Replace(question.s, SQ, EscapedSingleQuote)
        q2 == Replace(q1, DQ, EscapedDoubleQuote)
    IN  Value(question.type, q2)

\* quepy.encodingpolicy: whatever comes in, unicode goes out.
encoding_flexible_conversion(text) == Value("unicode", text.s)

\* quepy.tagger: the words of the text, or TaggingError.
Tagger(text) ==
    IF \E i \in 1..Len(text.s) : text.s[i] = HASH
    THEN [ok |-> FALSE, words |-> << >>]
    ELSE [ok |-> TRUE, words |-> text.s]

(***************************************************************************)
(* Letter case: str.upper() and str.lower(), character by character.       *)
(***************************************************************************)
UpperOf == [a |-> "A", b |-> "B", d |-> "D", f |-> "F", l |-> "L", m |-> "M",
            o |-> "O", p |-> "P", q |-> "Q", r |-> "R", s |-> "S", t |-> "T",
            x |-> "X"]

UpperChar(c) == IF c \in DOMAIN UpperOf THEN UpperOf[c] ELSE c

LowerChar(c) ==
    IF \E k \in DOMAIN UpperOf : UpperOf[k] = c
    THEN CHOOSE k \in DOMAIN UpperOf : UpperOf[k] = c
    ELSE c

Upper(s) == [i \in 1..Len(s) |-> UpperChar(s[i])]

Lower(s) == [i \in 1..Len(s) |-> LowerChar(s[i])]

(***************************************************************************)
(* Modules.  A module's namespace is listed by dir() in name order.        *)
(*                                                                         *)
(* A regex module is the sequence of the objects its names are bound to,   *)
(* in dir() order: a symbol's name is its position.                        *)
(***************************************************************************)
Weights == 1..MaxWeight

\* A subclass of RegexTemplate, as written by the application: its weight,
\* and the word its pattern looks for among the tagged words ("*": any).
RuleClass(w, p) == [kind |-> "rule", weight |-> w, pat |-> p]

\* RegexTemplate itself, imported into the application's regex module.
RegexTemplate == [kind |-> "base", weight |-> 0, pat |-> "*"]

\* Some class that is no RegexTemplate, and a value that is no class at all.
OtherClass == [kind |-> "class", weight |-> 0, pat |-> "*"]
NonClass == [kind |-> "value", weight |-> 0, pat |-> "*"]

\* What the symbols of a regex module may be bound to.
RegexObjects ==
    {RuleClass(w, "*") : w \in Weights} \cup {RegexTemplate, OtherClass, NonClass}

RegexModules == SeqsUpTo(RegexObjects, MaxSymbols)

\* issubclass(element, RegexTemplate): TypeError when element is no class.
issubclass(element) ==
    CASE element.kind = "value" -> "TypeError"
      [] element.kind \in {"rule", "base"} -> "True"
      [] OTHER -> "False"

\* The test of line 95 without that of line 96.
QualifiesWithBase(element) == issubclass(element) = "True"

\* The test of lines 95-96, once issubclass has not raised.
Qualifies(element) ==
    issubclass(element) = "True" /\ element # RegexTemplate

\* element(): the rule instance made from the class bound to a symbol.
Instantiate(name, element) ==
    [name |-> name, weight |-> element.weight, pat |-> element.pat]

\* The loop of lines 91-100 from symbol i on, self.rules being acc.
RECURSIVE DiscoverRules(_, _, _)
DiscoverRules(regex, i, acc) ==
    IF i > Len(regex) THEN acc
    ELSE LET element == regex[i]
         IN  IF issubclass(element) = "TypeError"
             THEN DiscoverRules(regex, i + 1, acc)
             ELSE IF Qualifies(element)
                  THEN DiscoverRules(regex, i + 1, Append(acc, Instantiate(i, element)))
                  ELSE DiscoverRules(regex, i + 1, acc)

Reverse(s) == [i \in 1..Len(s) |-> s[Len(s) + 1 - i]]

\* Insert r into a list sorted by ascending weight, after its equals.
RECURSIVE InsertAscending(_, _)
InsertAscending(sorted, r) ==
    IF sorted = << >> THEN <<r>>
    ELSE IF r.weight < Head(sorted).weight THEN <<r>> \o sorted
         ELSE <<Head(sorted)>> \o InsertAscending(Tail(sorted), r)

\* A stable ascending sort by weight.
RECURSIVE StableSortAscending(_)
StableSortAscending(rs) ==
    IF rs = << >> THEN << >>
    ELSE InsertAscending(StableSortAscending(SubSeq(rs, 1, Len(rs) - 1)), rs[Len(rs)])

\* A sort followed by a reverse: equal weights end up in reverse order.
SortThenReverse(rs) == Reverse(StableSortAscending(rs))

\* list.sort(key=weight, reverse=True): the list is reversed, sorted
\* stably and reversed again.
SortRules(rs) == Reverse(StableSortAscending(Reverse(rs)))

(***************************************************************************)
(* Settings: a namespace is a function from names to values.               *)
(***************************************************************************)
FOO == <<"F", "O", "O">>
Private == <<"_", "p">>
Bar == <<"B", "a", "r">>
Lang == <<"L">>
Under == <<"_">>

\* quepy.settings as shipped, before any application is loaded.
DefaultSettings == [k \in {Lang} |-> Value("unicode", <<"d">>)]

SettingsModules ==
    { [k \in {FOO, Private} |-> IF k = FOO THEN Value("str", <<"b">>) ELSE Value("int", <<1>>)],
      [k \in {Lang, Bar} |-> IF k = Lang THEN Value("str", <<"x">>) ELSE Value("unicode", <<"r">>)],
      [k \in {FOO, Under} |-> IF k = FOO THEN Value("int", <<2>>) ELSE Value("int", <<3>>)] }

\* The test of line 187 made on the first character of the name alone.
IsUpperCaseInitial(key) == UpperChar(key[1]) = key[1]

\* The test of line 187.
IsUpperCase(key) == Upper(key) = key

\* save_settings_values that leaves alone a name quepy.settings already has.
save_settings_values_if_absent(shared, module) ==
    LET keys == {key \in DOMAIN module : IsUpperCase(key)} \ DOMAIN shared
        value(key) == IF module[key].type = "str"
                      THEN encoding_flexible_conversion(module[key])
                      ELSE module[key]
    IN  [key \in DOMAIN shared \cup keys |->
            IF key \in keys THEN value(key) ELSE shared[key]]

\* Lines 186-191: shared is quepy.settings, module the application's.
save_settings_values(shared, module) ==
    LET keys == {key \in DOMAIN module : IsUpperCase(key)}
        value(key) == IF module[key].type = "str"
                      THEN encoding_flexible_conversion(module[key])
                      ELSE module[key]
    IN  [key \in DOMAIN shared \cup keys |->
            IF key \in keys THEN value(key) ELSE shared[key]]

(***************************************************************************)
(* Printout modules: a module exposes a set of attribute names.            *)
(***************************************************************************)
sparql == <<"s", "p", "a", "r", "q", "l">>
mql == <<"m", "q", "l">>
dot == <<"d", "o", "t">>

QueryLangs == {sparql, Upper(sparql), mql, Upper(mql), dot}

\* "expression_to_%s" % query_lang.lower()
PrintoutName(query_lang) == <<"expression_to_">> \o Lower(query_lang)

Module(name, names) == [type |-> "module", name |-> name, names |-> names]

\* sys.modules["quepy.printout"]
QuepyPrintout == Module("quepy.printout", {PrintoutName(sparql)})

\* What an application may bring as its printout module (None: no module).
PrintoutModules ==
    {None} \cup
    { Module("app.printout", names) :
        names \in { {}, {PrintoutName(sparql), PrintoutName(mql)},
                    {<<"expression_to_">> \o Upper(mql)} } }

AttributeError == [type |-> "AttributeError"]

\* getattr(module, name): the module's function of that name, or AttributeError.
getattr(module, name) ==
    IF name \in module.names
    THEN [type |-> "function", module |-> module.name, name |-> name]
    ELSE AttributeError

\* ResolvePrintout looking up the name made of query_lang as it is given.
ResolvePrintoutAsGiven(printout_module, query_lang) ==
    LET name == <<"expression_to_">> \o query_lang
        own == IF Truthy(printout_module)
               THEN LET f == getattr(printout_module, name)
                    IN  IF f = AttributeError THEN None ELSE f
               ELSE None
    IN  IF ~Truthy(own)
        THEN LET f == getattr(QuepyPrintout, name)
             IN  IF f = AttributeError THEN None ELSE f
        ELSE own

\* Lines 134-146 of get_queries: the printout function, or None.
ResolvePrintout(printout_module, query_lang) ==
    LET name == PrintoutName(query_lang)
        own == IF Truthy(printout_module)
               THEN LET f == getattr(printout_module, name)
                    IN  IF f = AttributeError THEN None ELSE f
               ELSE None
    IN  IF ~Truthy(own)
        THEN LET f == getattr(QuepyPrintout, name)
             IN  IF f = AttributeError THEN None ELSE f
        ELSE own

\* printout_func(expression): the query text the function makes of it.
Serialize(printout_func, expression) ==
    [type |-> "query", by |-> printout_func, of |-> expression]

(***************************************************************************)
(* Rule variants: rule.get_semantics(words).                               *)
(***************************************************************************)
Matches(rule, words) ==
    rule.pat = "*" \/ \E i \in 1..Len(words) : words[i] = rule.pat

get_semantics(rule, words) ==
    IF Matches(rule, words)
    THEN <<[type |-> "Expression", rule_used |-> rule.name, words |-> words],
           [type |-> "userdata", of |-> rule.name]>>
    ELSE <<None, None>>

(***************************************************************************)
(* The application object.                                                 *)
(***************************************************************************)
NoApp == [type |-> "NoneType"]

\* Lines 80-102 of QuepyApp.__init__, but for the settings (line 86).
QuepyApp(regex, settings_module, semantics, printout) ==
    [type |-> "QuepyApp",
     _regex_module |-> regex,
     _settings_module |-> settings_module,
     _semantics_module |-> semantics,
     _printout_module |-> printout,
     rules |-> SortRules(DiscoverRules(regex, 1, << >>))]

\* QuepyApp.__init__ with the call of line 88 before the call of line 86.
QuepyApp_init_tagger_first(shared, regex, settings_module, semantics, printout) ==
    LET saved == save_settings_values(shared, settings_module)
        found == DiscoverRules(regex, 1, << >>)
    IN  [self |-> QuepyApp(regex, settings_module, semantics, printout),
         settings |-> saved,
         trace |-> <<[ev |-> "get_tagger", arg |-> [settings |-> shared]],
                     [ev |-> "_save_settings_values", arg |-> [settings |-> shared]]>>
                   \o [k \in 1..Len(found) |->
                          [ev |-> "instantiate",
                           arg |-> [name |-> found[k].name, settings |-> saved]]]]

\* QuepyApp.__init__ run on quepy.settings as it stands (shared): the calls
\* of lines 86, 88 and 97 in the order of the code, each recorded with the
\* quepy.settings it finds, then the application and quepy.settings as the
\* constructor leaves them.
QuepyApp_init(shared, regex, settings_module, semantics, printout) ==
    LET saved == save_settings_values(shared, settings_module)
        found == DiscoverRules(regex, 1, << >>)
    IN  [self |-> QuepyApp(regex, settings_module, semantics, printout),
         settings |-> saved,
         trace |-> <<[ev |-> "_save_settings_values", arg |-> [settings |-> shared]],
                     [ev |-> "get_tagger", arg |-> [settings |-> saved]]>>
                   \o [k \in 1..Len(found) |->
                          [ev |-> "instantiate",
                           arg |-> [name |-> found[k].name, settings |-> saved]]]]

(***************************************************************************)
(* install.  A package is what the names app_name.settings, .regex,        *)
(* .semantics and .printout import to: the modules, and the set of the     *)
(* names whose import raises ImportError (missing).  order is the order    *)
(* in which the dictionary of line 35 is iterated.                         *)
(***************************************************************************)
Required == {"settings", "regex", "semantics"}

Roles == Required \cup {"printout"}

Orders ==
    {order \in [1..3 -> Required] : \A i, j \in 1..3 : order[i] = order[j] => i = j}

\* Line 47: the message names the module that could not be imported.
QuepyImportError(module_name) ==
    [settings |-> "QuepyImportError: Error importing u'settings'",
     regex |-> "QuepyImportError: Error importing u'regex'",
     semantics |-> "QuepyImportError: Error importing u'semantics'",
     printout |-> "QuepyImportError: Error importing u'printout'"][module_name]

\* The imports of lines 41-45, in order, up to the first that fails.
Imports(order, k) ==
    [i \in 1..k |-> [ev |-> "__import__", arg |-> [module_name |-> order[i]]]]

FirstMissing(package, order) ==
    LET failing == {k \in 1..3 : order[k] \in package.missing}
    IN  IF failing = {} THEN 0
        ELSE CHOOSE k \in failing : \A j \in failing : k <= j

\* install where the settings are saved as soon as their module is imported.
install_saving_early(shared, package, order) ==
    LET first == FirstMissing(package, order)
        printout == IF "printout" \in package.missing THEN None ELSE package.printout
        built == QuepyApp_init(shared, package.regex, package.settings,
                               "semantics", printout)
    IN  IF first # 0
        THEN [raised |-> QuepyImportError(order[first]),
              self |-> NoApp,
              settings |-> IF "settings" \in package.missing THEN shared
                           ELSE built.settings,
              trace |-> Imports(order, first)]
        ELSE [raised |-> "none", self |-> built.self, settings |-> built.settings,
              trace |-> Imports(order, 3) \o built.trace]

\* install where the import of printout is one more required import.
install_requiring_printout(shared, package, order) ==
    LET first == FirstMissing(package, order)
        built == QuepyApp_init(shared, package.regex, package.settings,
                               "semantics", package.printout)
    IN  IF first # 0
        THEN [raised |-> QuepyImportError(order[first]),
              self |-> NoApp, settings |-> shared,
              trace |-> Imports(order, first)]
        ELSE IF "printout" \in package.missing
        THEN [raised |-> QuepyImportError("printout"),
              self |-> NoApp, settings |-> shared,
              trace |-> Imports(order, 3)]
        ELSE [raised |-> "none", self |-> built.self, settings |-> built.settings,
              trace |-> Imports(order, 3) \o built.trace]

\* Lines 31-56: the three required modules are imported in the order of the
\* dictionary, the first ImportError is raised as QuepyImportError and
\* nothing else runs; an ImportError of printout leaves None in its place;
\* then the application is constructed.
install(shared, package, order) ==
    LET first == FirstMissing(package, order)
        printout == IF "printout" \in package.missing THEN None ELSE package.printout
        built == QuepyApp_init(shared, package.regex, package.settings,
                               "semantics", printout)
    IN  IF first # 0
        THEN [raised |-> QuepyImportError(order[first]),
              self |-> NoApp, settings |-> shared,
              trace |-> Imports(order, first)]
        ELSE [raised |-> "none", self |-> built.self, settings |-> built.settings,
              trace |-> Imports(order, 3) \o built.trace]

(***************************************************************************)
(* The generators.  A get_queries generator object, with the generator of  *)
(* _iter_compiled_forms it drives, is a record:                            *)
(*   question, query_lang   the arguments of the call                      *)
(*   state                  "created" (no code has run), "suspended" (at   *)
(*                          the yield of line 155) or "done"               *)
(*   printout_func, words   the locals of the two frames                   *)
(*   pos                    the rank of the next rule of the loop, line 175*)
(*   out                    what the consumer has received so far          *)
(*   trace                  the calls made on behalf of the facade call    *)
(*   exc                    the exception that ended the generator, if any *)
(***************************************************************************)
Event(ev, arg) == [ev |-> ev, arg |-> arg]

NewGenerator(question, query_lang, trace) ==
    [type |-> "generator", question |-> question, query_lang |-> query_lang,
     state |-> "created", printout_func |-> None, words |-> << >>, pos |-> 1,
     out |-> << >>, trace |-> trace, exc |-> "none"]

\* Lines 175-178 from the rule of rank i on: the rules tried, up to the
\* first that matches.
RECURSIVE IterRules(_, _, _, _)
IterRules(rules, words, i, trace) ==
    IF i > Len(rules)
    THEN [found |-> FALSE, at |-> i, trace |-> trace, result |-> <<None, None>>]
    ELSE LET result == get_semantics(rules[i], words)
             called == Append(trace, Event("get_semantics", [rank |-> i]))
         IN  IF Truthy(result[1])
             THEN [found |-> TRUE, at |-> i, trace |-> called, result |-> result]
             ELSE IterRules(rules, words, i + 1, called)

\* RunToYield resuming the loop of line 175 one rule too far.
RunToYieldSkipping(self, g) ==
    LET it == IterRules(self.rules, g.words, g.pos, g.trace)
    IN  IF it.found
        THEN [g EXCEPT !.state = "suspended",
                       !.pos = it.at + 2,
                       !.trace = Append(it.trace, Event("printout_func", [rank |-> it.at])),
                       !.out = Append(@, <<None,
                                           Serialize(g.printout_func, it.result[1]),
                                           it.result[2]>>)]
        ELSE [g EXCEPT !.state = "done", !.pos = it.at, !.trace = it.trace]

\* RunToYield trying the rules after the match, up to the next match,
\* before it yields.
RunToYieldAhead(self, g) ==
    LET it == IterRules(self.rules, g.words, g.pos, g.trace)
        yielded == Append(it.trace, Event("printout_func", [rank |-> it.at]))
    IN  IF it.found
        THEN [g EXCEPT !.state = "suspended",
                       !.pos = it.at + 1,
                       !.trace = IterRules(self.rules, g.words, it.at + 1, yielded).trace,
                       !.out = Append(@, <<None,
                                           Serialize(g.printout_func, it.result[1]),
                                           it.result[2]>>)]
        ELSE [g EXCEPT !.state = "done", !.pos = it.at, !.trace = it.trace]

\* The loop of line 149 over the loop of line 175, until the next yield of
\* line 155 or the end of both.
RunToYield(self, g) ==
    LET it == IterRules(self.rules, g.words, g.pos, g.trace)
    IN  IF it.found
        THEN [g EXCEPT !.state = "suspended",
                       !.pos = it.at + 1,
                       !.trace = Append(it.trace, Event("printout_func", [rank |-> it.at])),
                       !.out = Append(@, <<None,
                                           Serialize(g.printout_func, it.result[1]),
                                           it.result[2]>>)]
        ELSE [g EXCEPT !.state = "done", !.pos = it.at, !.trace = it.trace]

\* StartCompiledForms without the except clause of line 167.
StartCompiledFormsUncaught(self, g, question) ==
    LET tagged == Tagger(question)
        g1 == [g EXCEPT !.trace = Append(@, Event("tagger", question))]
    IN  IF ~tagged.ok
        THEN [g1 EXCEPT !.state = "done", !.exc = "TaggingError"]
        ELSE RunToYield(self, [g1 EXCEPT !.words = tagged.words])

\* Lines 165-170: the tagger is called; TaggingError ends the generator.
StartCompiledForms(self, g, question) ==
    LET tagged == Tagger(question)
        g1 == [g EXCEPT !.trace = Append(@, Event("tagger", question))]
    IN  IF ~tagged.ok
        THEN [g1 EXCEPT !.state = "done",
                        !.trace = Append(@, Event("logger", [level |-> "warning"]))]
        ELSE RunToYield(self, [g1 EXCEPT !.words = tagged.words])

\* StartQueries calling the tagger before it looks at printout_func.
StartQueriesTaggingFirst(self, g, printout_func) ==
    LET question == encoding_flexible_conversion(g.question)
    IN  IF Truthy(printout_func)
        THEN StartCompiledForms(self, [g EXCEPT !.printout_func = printout_func],
                                question)
        ELSE [g EXCEPT !.state = "done",
                       !.trace = Append(Append(@, Event("tagger", question)),
                                        Event("logger", [level |-> "error"]))]

\* Lines 147-158, on the first next(): with a printout function the
\* question is converted and compiled, without one an error is logged.
StartQueries(self, g, printout_func) ==
    IF Truthy(printout_func)
    THEN StartCompiledForms(self, [g EXCEPT !.printout_func = printout_func],
                            encoding_flexible_conversion(g.question))
    ELSE [g EXCEPT !.state = "done", !.trace = Append(@, Event("logger", [level |-> "error"]))]

\* next(g): the generator runs to its next yield or to its end.
Resume(self, g) ==
    CASE g.state = "created" ->
            StartQueries(self, g, ResolvePrintout(self._printout_module, g.query_lang))
      [] g.state = "suspended" -> RunToYield(self, g)
      [] OTHER -> g

AbsentTriple == <<None, None, None>>

\* list(g): the generator run to its end.
RECURSIVE Exhaust(_, _)
Exhaust(self, g) == IF g.state = "done" THEN g ELSE Exhaust(self, Resume(self, g))

\* get_query taking the first element of list(self.get_queries(...)).
get_query_of_list(self, question, query_lang) ==
    LET sanitized == question_sanitize(question)
        g == Exhaust(self, NewGenerator(sanitized, query_lang,
                                        <<Event("question_sanitize", question)>>))
    IN  [type |-> "get_query", question |-> question, query_lang |-> query_lang,
         trace |-> g.trace, exc |-> g.exc,
         ret |-> IF Len(g.out) > 0 THEN g.out[1] ELSE AbsentTriple]

\* get_query returning the target and the query without the userdata.
get_query_without_userdata(self, question, query_lang) ==
    LET sanitized == question_sanitize(question)
        g == Resume(self, NewGenerator(sanitized, query_lang,
                                       <<Event("question_sanitize", question)>>))
    IN  [type |-> "get_query", question |-> question, query_lang |-> query_lang,
         trace |-> g.trace, exc |-> g.exc,
         ret |-> IF Len(g.out) > 0 THEN <<g.out[1][1], g.out[1][2], None>>
                 ELSE AbsentTriple]

\* get_query, lines 117-120: the record of the call and what it returns.
get_query(self, question, query_lang) ==
    LET sanitized == question_sanitize(question)
        g == Resume(self, NewGenerator(sanitized, query_lang,
                                       <<Event("question_sanitize", question)>>))
    IN  [type |-> "get_query", question |-> question, query_lang |-> query_lang,
         trace |-> g.trace, exc |-> g.exc,
         ret |-> IF Len(g.out) > 0 THEN g.out[1] ELSE AbsentTriple]

\* get_queries, line 122: calling a generator function runs none of it.
get_queries(self, question, query_lang) ==
    NewGenerator(question, query_lang, << >>)

(***************************************************************************)
(* The state machine.                                                      *)
(***************************************************************************)
Handles == {"g1", "g2"}

\* The calls of the trace, in order, to the collaborator ev.
Calls(trace, ev) == SelectSeq(trace, LAMBDA e : e.ev = ev)

\* The call logged an error (line 157) or a warning (line 168).
Failure(trace) == Len(Calls(trace, "logger")) > 0

NoCall == [type |-> "NoneType"]

NoGenerators == [h \in Handles |-> None]

\* QuepyApp(regex, settings, semantics, printout): lines 70-102.
Construct(regex, settings_module, printout) ==
    /\ app = NoApp
    /\ Len(loads) < MaxLoads
    /\ LET built == QuepyApp_init(settings, regex, settings_module,
                                  "semantics", printout)
       IN  /\ settings' = built.settings
           /\ app' = built.self
    /\ gens' = NoGenerators
    /\ last' = NoCall
    /\ raised' = "none"
    /\ loads' = Append(loads, settings_module)
    /\ failed' = FALSE

\* A process with no application, that holds the result of no earlier call,
\* calls install on a package; last keeps what was installed, quepy.settings
\* as it was before, and the calls that were made.
Install(package, order) ==
    /\ app = NoApp
    /\ last = NoCall
    /\ Len(loads) < MaxLoads
    /\ LET result == install(settings, package, order)
       IN  /\ settings' = result.settings
           /\ app' = result.self
           /\ raised' = result.raised
           /\ last' = [type |-> "install", package |-> package, before |-> settings,
                       trace |-> result.trace]
           /\ loads' = IF result.raised = "none"
                       THEN Append(loads, package.settings) ELSE loads
    /\ gens' = NoGenerators
    /\ failed' = FALSE

\* The process lets go of the application object; quepy.settings stays.
Unload ==
    /\ app # NoApp
    /\ app' = NoApp
    /\ gens' = NoGenerators
    /\ last' = NoCall
    /\ failed' = FALSE
    /\ UNCHANGED <<settings, raised, loads>>

\* GetQuery where a call that fails empties self.rules.
GetQuery_losing_rules(question, query_lang) ==
    /\ app # NoApp
    /\ gens = NoGenerators
    /\ last = NoCall
    /\ last' = get_query(app, question, query_lang)
    /\ raised' = last'.exc
    /\ failed' = (failed \/ Failure(last'.trace))
    /\ app' = IF Failure(last'.trace) THEN [app EXCEPT !.rules = << >>] ELSE app
    /\ UNCHANGED <<settings, gens, loads>>

\* A caller that holds neither a generator nor the result of an earlier
\* call calls app.get_query(question, query_lang).
GetQuery(question, query_lang) ==
    /\ app # NoApp
    /\ gens = NoGenerators
    /\ last = NoCall
    /\ last' = get_query(app, question, query_lang)
    /\ raised' = last'.exc
    /\ failed' = (failed \/ Failure(last'.trace))
    /\ UNCHANGED <<settings, app, gens, loads>>

\* The caller calls app.get_queries(question, query_lang) and keeps the
\* generator under handle h.
GetQueries(h, question, query_lang) ==
    /\ app # NoApp
    /\ gens[h] = None
    /\ last = NoCall
    /\ gens' = [gens EXCEPT ![h] = get_queries(app, question, query_lang)]
    /\ raised' = "none"
    /\ UNCHANGED <<settings, app, last, loads, failed>>

\* NextElement where the position of the loop of line 175 is one for all the
\* generators of the application.
NextElement_shared_position(h) ==
    /\ gens[h] # None
    /\ gens[h].state # "done"
    /\ LET g == Resume(app, gens[h])
       IN  /\ gens' = [k \in Handles |->
                          IF k = h THEN g
                          ELSE IF gens[k] = None THEN None
                          ELSE [gens[k] EXCEPT !.pos = g.pos]]
           /\ raised' = g.exc
           /\ failed' = (failed \/ Failure(g.trace))
    /\ UNCHANGED <<settings, app, last, loads>>

\* NextElement where the generator takes the rules it tries off self.rules.
NextElement_consuming_rules(h) ==
    /\ gens[h] # None
    /\ gens[h].state # "done"
    /\ gens' = [gens EXCEPT ![h] = Resume(app, gens[h])]
    /\ raised' = gens'[h].exc
    /\ failed' = (failed \/ Failure(gens'[h].trace))
    /\ app' = [app EXCEPT !.rules = SubSeq(@, gens'[h].pos, Len(@))]
    /\ UNCHANGED <<settings, last, loads>>

\* The caller asks the generator under h for its next element.
NextElement(h) ==
    /\ gens[h] # None
    /\ gens[h].state # "done"
    /\ gens' = [gens EXCEPT ![h] = Resume(app, gens[h])]
    /\ raised' = gens'[h].exc
    /\ failed' = (failed \/ Failure(gens'[h].trace))
    /\ UNCHANGED <<settings, app, last, loads>>

\* The caller lets go of the generator under h, exhausted or not.
Discard(h) ==
    /\ gens[h] # None
    /\ gens' = [gens EXCEPT ![h] = None]
    /\ UNCHANGED <<settings, app, last, raised, loads, failed>>

\* The caller lets go of what get_query returned.
Forget ==
    /\ last # NoCall
    /\ last' = NoCall
    /\ UNCHANGED <<settings, app, gens, raised, loads, failed>>

(***************************************************************************)
(* Spec: one application, loaded, and a caller that queries it.            *)
(***************************************************************************)
\* The rule classes of the applications that are queried.
QueriedRuleClasses == {RuleClass(1, "*"), RuleClass(2, "w"), RuleClass(2, BS)}

QueriedSettings == [k \in {FOO} |-> Value("str", <<"b">>)]

Init ==
    /\ \E regex \in SeqsUpTo(QueriedRuleClasses, MaxRules), printout \in PrintoutModules :
          app = QuepyApp(regex, QueriedSettings, "semantics", printout)
    /\ settings = save_settings_values(DefaultSettings, QueriedSettings)
    /\ gens = NoGenerators
    /\ last = NoCall
    /\ raised = "none"
    /\ loads = <<QueriedSettings>>
    /\ failed = FALSE

Next ==
    \/ \E question \in Questions, query_lang \in QueryLangs :
          GetQuery(question, query_lang)
    \/ \E question \in Questions, query_lang \in QueryLangs :
          GetQueries("g1", question, query_lang)
    \/ NextElement("g1")
    \/ Discard("g1")
    \/ Forget

Spec == Init /\ [][Next]_vars

(***************************************************************************)
(* SpecSanitize: question_sanitize on its own.                             *)
(***************************************************************************)
SanitizeInputs ==
    {Value(t, s) : t \in {"str", "unicode"},
                   s \in SeqsUpTo(QuestionChars \cup {SQ, BS}, MaxTextLen)}

Sanitize(question) ==
    /\ last = NoCall
    /\ last' = [type |-> "question_sanitize", question |-> question,
                ret |-> question_sanitize(question)]
    /\ UNCHANGED <<settings, app, gens, raised, loads, failed>>

InitSanitize ==
    /\ settings = DefaultSettings
    /\ app = NoApp
    /\ gens = NoGenerators
    /\ last = NoCall
    /\ raised = "none"
    /\ loads = << >>
    /\ failed = FALSE

NextSanitize ==
    \/ \E question \in SanitizeInputs : Sanitize(question)
    \/ Forget

SpecSanitize == InitSanitize /\ [][NextSanitize]_vars

(***************************************************************************)
(* SpecLoad: applications are constructed, one after the other.            *)
(***************************************************************************)
InitLoad ==
    /\ settings = DefaultSettings
    /\ app = NoApp
    /\ gens = NoGenerators
    /\ last = NoCall
    /\ raised = "none"
    /\ loads = << >>
    /\ failed = FALSE

NextLoad ==
    \/ \E regex \in RegexModules, settings_module \in SettingsModules :
          Construct(regex, settings_module, None)
    \/ Unload

SpecLoad == InitLoad /\ [][NextLoad]_vars

(***************************************************************************)
(* SpecPair: a caller that holds two generators of the same application    *)
(* and asks them for elements in any order.                                *)
(***************************************************************************)
PairQuestions ==
    {Value("str", <<"w">>), Value("str", <<BS>>), Value("unicode", <<HASH>>)}

InitPair ==
    /\ app \in {QuepyApp(regex, QueriedSettings, "semantics", None) :
                    regex \in SeqsUpTo(QueriedRuleClasses, MaxRules)}
    /\ settings = save_settings_values(DefaultSettings, QueriedSettings)
    /\ gens = NoGenerators
    /\ last = NoCall
    /\ raised = "none"
    /\ loads = <<QueriedSettings>>
    /\ failed = FALSE

NextPair ==
    \E h \in Handles :
        \/ \E question \in PairQuestions : GetQueries(h, question, sparql)
        \/ NextElement(h)
        \/ Discard(h)

SpecPair == InitPair /\ [][NextPair]_vars

(***************************************************************************)
(* SpecInstall: a process that installs applications from packages of      *)
(* which some modules cannot be imported, and asks the installed           *)
(* application a question.                                                 *)
(***************************************************************************)
InstalledRegex ==
    { <<RuleClass(1, "*")>>,
      <<RegexTemplate, RuleClass(1, "w"), RuleClass(2, "*")>> }

Packages ==
    [settings : SettingsModules,
     regex : InstalledRegex,
     printout : {Module("app.printout", {PrintoutName(mql)})},
     missing : SUBSET Roles]

NextInstall ==
    \/ \E package \in Packages, order \in Orders : Install(package, order)
    \/ Unload
    \/ \E query_lang \in {sparql, mql} : GetQuery(Value("str", <<"w">>), query_lang)
    \/ Forget

SpecInstall == InitLoad /\ [][NextInstall]_vars

(***************************************************************************)
(* The ranked rule list after construction.                                *)
(***************************************************************************)
Loaded == app # NoApp

\* The symbols of a regex module that are bound to rule definitions.
RuleSymbols(regex) == {n \in 1..Len(regex) : regex[n].kind = "rule"}

\* C1: after construction self.rules is sorted by weight descending, and
\* rules of equal weight are in the order of their discovery.
C1_RankedStable ==
    Loaded =>
        \A i, j \in 1..Len(app.rules) :
            i < j =>
                \/ app.rules[i].weight > app.rules[j].weight
                \/ /\ app.rules[i].weight = app.rules[j].weight
                   /\ app.rules[i].name < app.rules[j].name

\* An application with two rules of equal weight, and with a rule that the
\* ranking has moved in front of one discovered before it.
C1_Witness ==
    /\ Loaded
    /\ \E i, j \in 1..Len(app.rules) :
          i < j /\ app.rules[i].weight = app.rules[j].weight
    /\ \E i, j \in 1..Len(app.rules) :
          i < j /\ app.rules[i].name > app.rules[j].name

RanksTried(trace) ==
    LET tried == Calls(trace, "get_semantics")
    IN  [k \in 1..Len(tried) |-> tried[k].arg.rank]

\* The ranks of the rules that match the words, in rank order.
MatchingRanks(rules, words) ==
    SelectSeq([i \in 1..Len(rules) |-> i], LAMBDA i : Matches(rules[i], words))

\* The element get_queries is to yield for the rule of rank i.
TripleOf(self, query_lang, words, i) ==
    LET result == get_semantics(self.rules[i], words)
    IN  <<None,
          Serialize(ResolvePrintout(self._printout_module, query_lang), result[1]),
          result[2]>>

Resolvable(self, query_lang) ==
    Truthy(ResolvePrintout(self._printout_module, query_lang))

Generators == {h \in Handles : gens[h] # None}

\* C3: with a resolvable query language, what a get_queries generator has
\* yielded so far is, element by element, what the rules that match the
\* tagged question give, in rank order, and once the generator is done there
\* is exactly one element for each such rule.
C3_AllMatchesInRankOrder ==
    \A h \in Generators :
        LET g == gens[h]
            tagged == Tagger(encoding_flexible_conversion(g.question))
            ranks == IF tagged.ok THEN MatchingRanks(app.rules, tagged.words) ELSE << >>
        IN  Resolvable(app, g.query_lang) =>
                /\ Len(g.out) <= Len(ranks)
                /\ \A k \in 1..Len(g.out) :
                      g.out[k] = TripleOf(app, g.query_lang, tagged.words, ranks[k])
                /\ g.state = "done" => Len(g.out) = Len(ranks)

\* A generator that is done after it has yielded one element, for the
\* second of two rules: the first was tried and did not match.
C3_Witness ==
    \E h \in Generators :
        /\ gens[h].state = "done"
        /\ Len(app.rules) = 2
        /\ Len(gens[h].out) = 1
        /\ gens[h].out[1][2].of.rule_used = app.rules[2].name

(***************************************************************************)
(* get_query.                                                              *)
(***************************************************************************)
Returned == last # NoCall /\ last.type = "get_query"

\* What the tagger made of the question in a call with this trace: no
\* words when it was not called or could not parse.
WordsOf(trace) ==
    LET calls == Calls(trace, "tagger")
    IN  IF Len(calls) = 0 THEN [ok |-> FALSE, words |-> << >>]
        ELSE Tagger(calls[1].arg)

\* The ranks of the rules that match in a call with this trace.
MatchedIn(self, trace) ==
    IF WordsOf(trace).ok THEN MatchingRanks(self.rules, WordsOf(trace).words) ELSE << >>

\* C4: in a get_query call the rules whose get_semantics is called are
\* those of rank 1 up to the first rule that matches, each once and in
\* rank order (all the rules when none matches, none when the question
\* was not tagged).
C4_StopsAtFirstMatch ==
    Returned =>
        LET matched == MatchedIn(app, last.trace)
            upto == IF ~WordsOf(last.trace).ok THEN 0
                    ELSE IF Len(matched) = 0 THEN Len(app.rules)
                    ELSE matched[1]
        IN  RanksTried(last.trace) = [k \in 1..upto |-> k]

\* A get_query call on two rules that both match the question: the first
\* was tried and the second was not.
C4_Witness ==
    /\ Returned
    /\ Len(MatchedIn(app, last.trace)) = 2
    /\ RanksTried(last.trace) = <<1>>

\* C5: get_query returns the first element of what get_queries yields for
\* the same question and query language (the absent triple when it yields
\* nothing).
C5_FirstAgrees ==
    \A h \in Generators :
        LET g == gens[h]
            first == get_query(app, g.question, g.query_lang).ret
        IN  /\ Len(g.out) > 0 => g.out[1] = first
            /\ (g.state = "done" /\ Len(g.out) = 0) => first = AbsentTriple

TaggerReceivesSanitized(question, trace) ==
    \A k \in 1..Len(trace) :
        trace[k].ev = "tagger" => trace[k].arg.s = question_sanitize(question).s

\* C7: in every call of get_query and of get_queries the question is
\* sanitized, once, before the tagger is called: the text the tagger
\* receives is the sanitized question.
C7_TaggerReceivesSanitized ==
    /\ Returned => TaggerReceivesSanitized(last.question, last.trace)
    /\ \A h \in Generators :
          TaggerReceivesSanitized(gens[h].question, gens[h].trace)

(***************************************************************************)
(* question_sanitize.                                                      *)
(***************************************************************************)
\* C8: what question_sanitize returns holds no unescaped quote: every
\* single quote and every double quote in it comes right after a backslash.
C8_QuotesEscaped ==
    last.type = "question_sanitize" =>
        \A i \in 1..Len(last.ret.s) :
            last.ret.s[i] \in {SQ, DQ} => (i > 1 /\ last.ret.s[i - 1] = BS)

(***************************************************************************)
(* The printout function of a call.                                        *)
(***************************************************************************)
\* The function C9 names: expression_to_<lower-cased query_lang> of
\* the application's printout module if there is one and it has that name,
\* else that of quepy.printout if it has that name, else None.
NamedPrintout(self, query_lang) ==
    LET name == <<"expression_to_">> \o Lower(query_lang)
    IN  IF self._printout_module # None /\ name \in self._printout_module.names
        THEN [type |-> "function", module |-> self._printout_module.name, name |-> name]
        ELSE IF name \in QuepyPrintout.names
             THEN [type |-> "function", module |-> QuepyPrintout.name, name |-> name]
             ELSE None

Started == {h \in Generators : gens[h].state # "created"}

\* C9: the printout function a get_queries call uses is the one the claim
\* names, and a query_lang that differs from the call's only in letter case
\* resolves to the same function.
C9_PrintoutResolution ==
    \A h \in Started :
        /\ gens[h].printout_func = NamedPrintout(app, gens[h].query_lang)
        /\ \A other \in QueryLangs :
              Lower(other) = Lower(gens[h].query_lang) =>
                  ResolvePrintout(app._printout_module, other) = gens[h].printout_func

\* A call with an upper-case query_lang that uses the function of the
\* application's printout module.
C9_Witness ==
    \E h \in Started :
        /\ gens[h].query_lang = Upper(mql)
        /\ gens[h].printout_func # None
        /\ gens[h].printout_func.module = "app.printout"

\* Neither the application's printout module nor quepy.printout has the
\* function for query_lang.
NoPrintout(self, query_lang) == NamedPrintout(self, query_lang) = None

Quiet(trace) ==
    Len(Calls(trace, "tagger")) = 0 /\ Len(Calls(trace, "get_semantics")) = 0

\* C10: with a query_lang that has no printout function, a get_queries
\* generator ends on its first next() without an element, get_query
\* returns the absent triple, no exception escapes, and neither the tagger
\* nor any rule's get_semantics is called.
C10_NoPrintoutNoWork ==
    /\ raised = "none"
    /\ \A h \in Started :
          NoPrintout(app, gens[h].query_lang) =>
              /\ gens[h].state = "done"
              /\ gens[h].out = << >>
              /\ Quiet(gens[h].trace)
    /\ (Returned /\ NoPrintout(app, last.query_lang)) =>
          (last.ret = AbsentTriple /\ Quiet(last.trace))

\* A generator that is done for want of a printout function, on a question
\* that the tagger parses and that the first rule matches.
C10_Witness ==
    \E h \in Started :
        /\ NoPrintout(app, gens[h].query_lang)
        /\ Len(app.rules) > 0
        /\ Tagger(gens[h].question).ok
        /\ Matches(app.rules[1], gens[h].question.s)

(***************************************************************************)
(* A question the tagger cannot parse.                                     *)
(***************************************************************************)
\* The tagger was called in a call with this trace, and raised TaggingError.
TaggingFailed(trace) ==
    Len(Calls(trace, "tagger")) > 0 /\ ~WordsOf(trace).ok

\* C11: when the tagger raises TaggingError for the question, the
\* get_queries generator ends without an element, get_query returns
\* (None, None, None), no exception escapes either call, and get_semantics
\* is called on no rule.
C11_TaggingErrorNoWork ==
    /\ \A h \in Generators :
          TaggingFailed(gens[h].trace) =>
              /\ gens[h].state = "done"
              /\ gens[h].out = << >>
              /\ gens[h].exc = "none"
              /\ RanksTried(gens[h].trace) = << >>
    /\ Returned /\ TaggingFailed(last.trace) =>
          /\ last.ret = AbsentTriple
          /\ last.exc = "none"
          /\ RanksTried(last.trace) = << >>
    /\ (\E h \in Generators : TaggingFailed(gens[h].trace)) => raised = "none"
    /\ Returned /\ TaggingFailed(last.trace) => raised = "none"

\* A generator that ended on a question the tagger could not parse, in an
\* application with a rule that matches any words.
C11_Witness ==
    /\ \E h \in Generators :
          /\ TaggingFailed(gens[h].trace)
          /\ gens[h].state = "done"
    /\ \E i \in 1..Len(app.rules) : Matches(app.rules[i], << >>)

(***************************************************************************)
(* Loading: install, the constructor and quepy.settings.                   *)
(***************************************************************************)
\* The last operation was an install that returned an application.
Installed == last.type = "install" /\ raised = "none"

\* A name is entirely upper-case when none of its characters is a
\* lower-case letter (FOO, FOO_BAR; not Bar, not _private).
EntirelyUpperCase(key) == \A i \in 1..Len(key) : key[i] \notin DOMAIN UpperOf

\* quepy.settings holds the value: as it is, or as unicode text when it is
\* a str.
HoldsValue(held, value) ==
    IF value.type = "str" THEN held = Value("unicode", value.s) ELSE held = value

\* C12: after an application is loaded, quepy.settings holds under the same
\* name the value of every entirely upper-case name of the application's
\* settings module, and for every other name of that module it holds what
\* it held before the load (nothing, when it had no such name).
C12_UpperCaseCopied ==
    Installed =>
        \A key \in DOMAIN last.package.settings :
            IF EntirelyUpperCase(key)
            THEN /\ key \in DOMAIN settings
                 /\ HoldsValue(settings[key], last.package.settings[key])
            ELSE /\ key \in DOMAIN settings <=> key \in DOMAIN last.before
                 /\ key \in DOMAIN settings => settings[key] = last.before[key]

\* An application was loaded whose settings module defines FOO and _p:
\* quepy.settings has FOO and has no _p.
C12_Witness ==
    /\ Installed
    /\ {FOO, Private} \subseteq DOMAIN last.package.settings
    /\ FOO \in DOMAIN settings
    /\ Private \notin DOMAIN settings

\* C13: in one load _save_settings_values is called exactly once, before
\* get_tagger and before any rule is instantiated, both of which find
\* quepy.settings as the propagation leaves it; and whenever get_semantics
\* has been called on a rule, quepy.settings holds the upper-case values of
\* the application's settings module.
C13_SettingsBeforeAll ==
    /\ Installed =>
          LET t == last.trace
              saved == save_settings_values(last.before, last.package.settings)
          IN  /\ Len(Calls(t, "_save_settings_values")) = 1
              /\ Len(Calls(t, "get_tagger")) = 1
              /\ \A i \in 1..Len(t) :
                    t[i].ev \in {"get_tagger", "instantiate"} =>
                        /\ \E j \in 1..(i - 1) : t[j].ev = "_save_settings_values"
                        /\ t[i].arg.settings = saved
    /\ Returned /\ RanksTried(last.trace) # << >> =>
          /\ Loaded
          /\ \A key \in DOMAIN app._settings_module :
                EntirelyUpperCase(key) =>
                    /\ key \in DOMAIN settings
                    /\ HoldsValue(settings[key], app._settings_module[key])

\* An install that changed quepy.settings and instantiated a rule.
C13_Witness ==
    /\ Installed
    /\ settings # last.before
    /\ Len(Calls(last.trace, "instantiate")) > 0

\* The loads that define the name, as an entirely upper-case name.
Definers(key) ==
    {i \in 1..Len(loads) : key \in DOMAIN loads[i] /\ EntirelyUpperCase(key)}

\* C14: after any sequence of loads, each name that some loaded application
\* defines in upper case is in quepy.settings with the value of the last
\* loaded application that defines it, and every other name of
\* quepy.settings is one it had from the start, with the value it had.
C14_LastLoadedWins ==
    /\ \A i \in 1..Len(loads) :
          \A key \in DOMAIN loads[i] :
              Definers(key) # {} =>
                  LET latest == CHOOSE n \in Definers(key) :
                                    \A m \in Definers(key) : m <= n
                  IN  /\ key \in DOMAIN settings
                      /\ HoldsValue(settings[key], loads[latest][key])
    /\ \A key \in DOMAIN settings :
          Definers(key) = {} =>
              /\ key \in DOMAIN DefaultSettings
              /\ settings[key] = DefaultSettings[key]
    /\ DOMAIN DefaultSettings \subseteq DOMAIN settings

\* Three loads: the first and the last define FOO with different values, and
\* the one between defines a name that no other defines.
C14_Witness ==
    /\ Len(loads) = 3
    /\ FOO \in DOMAIN loads[1] /\ FOO \in DOMAIN loads[3]
    /\ loads[1][FOO] # loads[3][FOO]
    /\ Lang \in DOMAIN loads[2]
    /\ settings[Lang] = Value("unicode", loads[2][Lang].s)
    /\ settings[Lang] # DefaultSettings[Lang]

\* C15: when the import of settings, regex or semantics fails, install
\* raises QuepyImportError naming one of the modules that failed and there
\* is no application; otherwise install raises nothing and returns an
\* application, which has None for its printout module when the import of
\* printout failed.
C15_ImportFailures ==
    last.type = "install" =>
        LET missing == last.package.missing
        IN  IF missing \cap Required # {}
            THEN /\ \E module_name \in missing \cap Required :
                        raised = QuepyImportError(module_name)
                 /\ ~Loaded
            ELSE /\ raised = "none"
                 /\ Loaded
                 /\ "printout" \in missing => app._printout_module = None
                 /\ "printout" \notin missing =>
                        app._printout_module = last.package.printout

\* An install of a package of which only printout could not be imported.
C15_Witness ==
    /\ last.type = "install"
    /\ last.package.missing = {"printout"}
    /\ Loaded
    /\ app._printout_module = None

(***************************************************************************)
(* The application is left as it was by the calls made on it.              *)
(***************************************************************************)
\* The application a new construction from the same modules gives.
Fresh(self) ==
    QuepyApp(self._regex_module, self._settings_module,
             self._semantics_module, self._printout_module)

\* The question can be tagged and the query language has a printout
\* function.
Answerable(self, question, query_lang) ==
    /\ Resolvable(self, query_lang)
    /\ Tagger(encoding_flexible_conversion(question)).ok

\* C16: once a call on the application has failed (no printout function
\* for the query language, or a question the tagger could not parse), a
\* call with a question that can be tagged and a query language that has a
\* printout function returns what the same call returns on an application
\* newly constructed from the same modules.
C16_UsableAfterFailure ==
    /\ failed /\ Returned /\ Answerable(app, question_sanitize(last.question),
                                        last.query_lang) =>
          /\ last.ret = get_query(Fresh(app), last.question, last.query_lang).ret
          /\ raised = "none"
    /\ \A h \in Generators :
          failed /\ gens[h].state = "done"
                 /\ Answerable(app, gens[h].question, gens[h].query_lang) =>
              gens[h].out = Exhaust(Fresh(app),
                                    NewGenerator(gens[h].question,
                                                 gens[h].query_lang, << >>)).out

\* After a failed call, get_query has returned the triple of a rule.
C16_Witness ==
    /\ failed
    /\ Returned
    /\ Answerable(app, question_sanitize(last.question), last.query_lang)
    /\ last.ret # AbsentTriple

(***************************************************************************)
(* Laziness of get_queries.                                                *)
(***************************************************************************)
\* The rank of the rule that produced the element.
RankOf(self, element) ==
    CHOOSE i \in 1..Len(self.rules) : self.rules[i].name = element[3].of

\* C17: a generator of get_queries that has been asked for nothing has
\* made no call at all (no tagger, no rule); one that waits after its k-th
\* element has called get_semantics on the rules of rank 1 up to the rank of
\* the rule that produced that element, each once and no other, and the
\* printout function k times; and as long as it is asked for nothing more
\* it stays so.
C17_Lazy ==
    \A h \in Generators :
        LET g == gens[h]
            k == Len(g.out)
        IN  /\ g.state = "created" => g.trace = << >> /\ k = 0
            /\ g.state = "suspended" =>
                  /\ k >= 1
                  /\ RanksTried(g.trace) = [i \in 1..RankOf(app, g.out[k]) |-> i]
                  /\ Len(Calls(g.trace, "printout_func")) = k
                  /\ Len(Calls(g.trace, "tagger")) = 1
            /\ g.state = "done" => Len(Calls(g.trace, "printout_func")) = k

\* A generator that waits after its first element, which the first of two
\* rules produced: the second rule has not been tried.
C17_Witness ==
    \E h \in Generators :
        /\ gens[h].state = "suspended"
        /\ Len(gens[h].out) = 1
        /\ Len(app.rules) = 2
        /\ RankOf(app, gens[h].out[1]) = 1
        /\ Matches(app.rules[2], gens[h].words)
        /\ RanksTried(gens[h].trace) = <<1>>

(***************************************************************************)
(* self.rules after construction.                                          *)
(***************************************************************************)
\* C18: no call of get_query or get_queries, and no step of a generator,
\* whether it ends with elements, fails or is abandoned part-way, changes
\* self.rules: the same rules stay in the same order.
C18_RulesFixed ==
    [][Loaded => Loaded' /\ app'.rules = app.rules]_vars

\* A generator that waits after an element with rules left to try, on an
\* application of two rules of different weights, after a call has failed.
C18_Witness ==
    /\ failed
    /\ Len(app.rules) = 2
    /\ app.rules[1].weight # app.rules[2].weight
    /\ \E h \in Generators :
          /\ gens[h].state = "suspended"
          /\ gens[h].pos <= Len(app.rules)

(***************************************************************************)
(* An install that fails.                                                  *)
(***************************************************************************)
\* C19: when install has raised QuepyImportError, quepy.settings is what it
\* was before the call, name for name, and there is no application: this
\* holds also when the settings module itself was imported.
C19_FailedInstallCopiesNothing ==
    last.type = "install" /\ raised # "none" =>
        /\ settings = last.before
        /\ ~Loaded
        /\ Calls(last.trace, "_save_settings_values") = << >>

\* An install failed although the settings module was imported, and that
\* module has values that quepy.settings did not have.
C19_Witness ==
    /\ last.type = "install"
    /\ raised # "none"
    /\ "settings" \notin last.package.missing
    /\ \E i \in 1..Len(last.trace) :
          last.trace[i].arg.module_name = "settings"
    /\ save_settings_values(last.before, last.package.settings) # last.before

(***************************************************************************)
(* Two generators of one application.                                      *)
(***************************************************************************)
\* The generator after n calls of next() with nothing else going on.
RECURSIVE Alone(_, _, _)
Alone(self, g, n) ==
    IF n = 0 THEN g ELSE Alone(self, Resume(self, g), n - 1)

\* C20: however the pulls from two generators of the same application are
\* interleaved, each generator is where it would be had it been pulled the
\* same number of times alone (same elements in the same order, same
\* calls), and once started with a printout function it has called the
\* tagger exactly once, on its own question.
C20_Independent ==
    \A h \in Generators :
        LET g == gens[h]
            new == NewGenerator(g.question, g.query_lang, << >>)
        IN  /\ \E n \in 0..(Len(app.rules) + 1) : g = Alone(app, new, n)
            /\ g.state # "created" /\ Resolvable(app, g.query_lang) =>
                  Calls(g.trace, "tagger")
                      = <<Event("tagger", encoding_flexible_conversion(g.question))>>

\* Two generators on different questions, a first element taken from each
\* and both with rules left to try.
C20_Witness ==
    /\ gens["g1"] # None /\ gens["g2"] # None
    /\ gens["g1"].question # gens["g2"].question
    /\ \A h \in Handles :
          /\ gens[h].state = "suspended"
          /\ Len(gens[h].out) = 1
          /\ gens[h].pos <= Len(app.rules)
    /\ gens["g1"].out # gens["g2"].out

====
